---------------------------- MODULE Spec2Model ----------------------------
(***************************************************************************)
(* Fractional indexing: order keys whose string order is the item order.   *)
(*                                                                         *)
(* A Python str is a sequence of character codes (ord), so that the        *)
(* comparisons of the source (<, >=, ==) are comparisons of code points.   *)
(* A call either returns a value or raises; both outcomes are a record     *)
(* [exc, val] with exc = "none" for a normal return.  Python's None is the *)
(* one-element sequence None, which is no string (its element is no        *)
(* character code).                                                        *)
(***************************************************************************)
EXTENDS Integers, Sequences, FiniteSets, TLC

VARIABLES digits, start_key, end_key, number_of_keys, pc, result

vars == <<digits, start_key, end_key, number_of_keys, pc, result>>

-----------------------------------------------------------------------------
(* Bounds of the explored inputs.                                          *)

MaxFracLen == 2     \* longest fractional part of an input key
MaxN == 3           \* largest number_of_keys requested
MaxIntLen == 4      \* integer parts up to this length are all tried

-----------------------------------------------------------------------------
(* Characters, strings, outcomes.                                          *)

ord_A == 65
ord_Z == 90
ord_a == 97
ord_z == 122

None == << -1 >>

Ok(v) == [exc |-> "none", val |-> v]
Raise(e) == [exc |-> e, val |-> None]
IsOk(r) == r.exc = "none"

\* s < t for Python str: the first differing code point decides, a proper
\* prefix is smaller.
StrLess(s, t) ==
    \E i \in 1..Len(t) :
        /\ Len(s) >= i - 1
        /\ \A j \in 1..(i - 1) : s[j] = t[j]
        /\ (Len(s) = i - 1 \/ s[i] < t[i])

\* zero * n
Repeat(c, n) == [i \in 1..n |-> c]

\* digits.index(c), 0-based; c is a symbol of digits
Index(alphabet, c) ==
    (CHOOSE i \in 1..Len(alphabet) :
        alphabet[i] = c /\ \A j \in 1..(i - 1) : alphabet[j] # c) - 1

\* '0'..'9', 'A'..'Z', 'a'..'z'
BASE_62_DIGITS ==
    [i \in 1..62 |-> IF i <= 10 THEN 47 + i
                     ELSE IF i <= 36 THEN 54 + i
                     ELSE 60 + i]

\* value is passed doubled (twice = 2 * value), so that x.5 is an integer;
\* ROUND_HALF_UP of a non-negative value
\* mutation: halves rounded down
round_half_down(twice) == twice \div 2

round_half_up(twice) == (twice + 1) \div 2

-----------------------------------------------------------------------------
(* Variable-length integer codec and validator.                            *)

get_integer_length(first_char) ==
    IF ord_a <= first_char /\ first_char <= ord_z
    THEN Ok(first_char - ord_a + 2)
    ELSE IF ord_A <= first_char /\ first_char <= ord_Z
    THEN Ok(ord_Z - first_char + 2)
    ELSE Raise("OrderKeyError")

\* order_key[0] of the empty string raises IndexError
get_integer_part(order_key) ==
    IF order_key = <<>> THEN Raise("IndexError")
    ELSE LET integer_part_length == get_integer_length(order_key[1])
         IN  IF ~IsOk(integer_part_length) THEN integer_part_length
             ELSE IF integer_part_length.val > Len(order_key)
             THEN Raise("OrderKeyError")
             ELSE Ok(SubSeq(order_key, 1, integer_part_length.val))

validate_integer(order_key) ==
    IF order_key = <<>> THEN Raise("IndexError")
    ELSE LET l == get_integer_length(order_key[1])
         IN  IF ~IsOk(l) THEN l
             ELSE IF Len(order_key) # l.val THEN Raise("OrderKeyError")
             ELSE Ok(None)

validate_order_key(order_key, alphabet) ==
    LET zero == alphabet[1]
        smallest_valid_key == <<ord_A>> \o Repeat(zero, 26)
    IN  IF order_key = smallest_valid_key THEN Raise("OrderKeyError")
        ELSE LET integer_part == get_integer_part(order_key)
             IN  IF ~IsOk(integer_part) THEN integer_part
                 ELSE LET fractional_part ==
                              SubSeq(order_key, Len(integer_part.val) + 1,
                                     Len(order_key))
                      IN  IF fractional_part # <<>>
                             /\ fractional_part[Len(fractional_part)] = zero
                          THEN Raise("OrderKeyError")
                          ELSE Ok(None)

-----------------------------------------------------------------------------
(* Integer arithmetic.                                                     *)

\* the loop of increment_integer from position i down to 1
RECURSIVE increment_loop(_, _, _)
increment_loop(digits_list, i, alphabet) ==
    IF i = 0 THEN [digits_list |-> digits_list, has_carry_over |-> TRUE]
    ELSE LET current_digit == Index(alphabet, digits_list[i]) + 1
         IN  IF current_digit = Len(alphabet)
             THEN increment_loop([digits_list EXCEPT ![i] = alphabet[1]],
                                 i - 1, alphabet)
             ELSE [digits_list |->
                       [digits_list EXCEPT ![i] = alphabet[current_digit + 1]],
                   has_carry_over |-> FALSE]

\* mutation: a digit is appended at every advance of the head, also among
\* the upper-case heads where one has to be dropped
increment_integer_always_append(integer_str, alphabet) ==
    LET zero == alphabet[1]
        checked == validate_integer(integer_str)
    IN  IF ~IsOk(checked) THEN checked
        ELSE LET head == integer_str[1]
                 loop == increment_loop(Tail(integer_str),
                                        Len(integer_str) - 1, alphabet)
                 digits_list == loop.digits_list
             IN  IF loop.has_carry_over
                 THEN IF head = ord_Z THEN Ok(<<ord_a, zero>>)
                      ELSE IF head = ord_z THEN Ok(None)
                      ELSE Ok(<<head + 1>> \o Append(digits_list, zero))
                 ELSE Ok(<<head>> \o digits_list)

increment_integer(integer_str, alphabet) ==
    LET zero == alphabet[1]
        checked == validate_integer(integer_str)
    IN  IF ~IsOk(checked) THEN checked
        ELSE LET head == integer_str[1]
                 loop == increment_loop(Tail(integer_str),
                                        Len(integer_str) - 1, alphabet)
                 digits_list == loop.digits_list
             IN  IF loop.has_carry_over
                 THEN IF head = ord_Z THEN Ok(<<ord_a, zero>>)
                      ELSE IF head = ord_z THEN Ok(None)
                      ELSE LET next_head == head + 1
                           IN  IF next_head > ord_a
                               THEN Ok(<<next_head>> \o Append(digits_list, zero))
                               ELSE Ok(<<next_head>> \o
                                       SubSeq(digits_list, 1, Len(digits_list) - 1))
                 ELSE Ok(<<head>> \o digits_list)

\* the loop of decrement_integer from position i down to 1
RECURSIVE decrement_loop(_, _, _)
decrement_loop(digits_list, i, alphabet) ==
    IF i = 0 THEN [digits_list |-> digits_list, requires_borrow |-> TRUE]
    ELSE LET current_digit == Index(alphabet, digits_list[i]) - 1
         IN  IF current_digit = -1
             THEN decrement_loop(
                      [digits_list EXCEPT ![i] = alphabet[Len(alphabet)]],
                      i - 1, alphabet)
             ELSE [digits_list |->
                       [digits_list EXCEPT ![i] = alphabet[current_digit + 1]],
                   requires_borrow |-> FALSE]

\* mutation: a borrow out of the last digit of head 'a' gives 'Z' with the
\* zero digit instead of the maximum digit
decrement_integer_wrong_borrow(integer_str, alphabet) ==
    LET max_digit == alphabet[Len(alphabet)]
        checked == validate_integer(integer_str)
    IN  IF ~IsOk(checked) THEN checked
        ELSE LET head == integer_str[1]
                 loop == decrement_loop(Tail(integer_str),
                                        Len(integer_str) - 1, alphabet)
                 digits_list == loop.digits_list
             IN  IF loop.requires_borrow
                 THEN IF head = ord_a THEN Ok(<<ord_Z, alphabet[1]>>)
                      ELSE IF head = ord_A THEN Ok(None)
                      ELSE LET next_head == head - 1
                           IN  IF next_head < ord_Z
                               THEN Ok(<<next_head>> \o
                                       Append(digits_list, max_digit))
                               ELSE Ok(<<next_head>> \o
                                       SubSeq(digits_list, 1, Len(digits_list) - 1))
                 ELSE Ok(<<head>> \o digits_list)

\* mutation: every borrow out of the digits is an overflow, the head never
\* retreats
decrement_integer_no_head_borrow(integer_str, alphabet) ==
    LET checked == validate_integer(integer_str)
    IN  IF ~IsOk(checked) THEN checked
        ELSE LET head == integer_str[1]
                 loop == decrement_loop(Tail(integer_str),
                                        Len(integer_str) - 1, alphabet)
             IN  IF loop.requires_borrow THEN Ok(None)
                 ELSE Ok(<<head>> \o loop.digits_list)

decrement_integer(integer_str, alphabet) ==
    LET max_digit == alphabet[Len(alphabet)]
        checked == validate_integer(integer_str)
    IN  IF ~IsOk(checked) THEN checked
        ELSE LET head == integer_str[1]
                 loop == decrement_loop(Tail(integer_str),
                                        Len(integer_str) - 1, alphabet)
                 digits_list == loop.digits_list
             IN  IF loop.requires_borrow
                 THEN IF head = ord_a THEN Ok(<<ord_Z, max_digit>>)
                      ELSE IF head = ord_A THEN Ok(None)
                      ELSE LET next_head == head - 1
                           IN  IF next_head < ord_Z
                               THEN Ok(<<next_head>> \o
                                       Append(digits_list, max_digit))
                               ELSE Ok(<<next_head>> \o
                                       SubSeq(digits_list, 1, Len(digits_list) - 1))
                 ELSE Ok(<<head>> \o digits_list)

-----------------------------------------------------------------------------
(* Midpoint finder.                                                        *)

\* the zip loop: how many leading positions of start_key, right-padded with
\* zero to the length of end_key, agree with end_key
RECURSIVE common_prefix_len(_, _, _, _)
common_prefix_len(start_key_, end_key_, zero, n) ==
    IF n < Len(end_key_)
       /\ (IF n < Len(start_key_) THEN start_key_[n + 1] ELSE zero)
              = end_key_[n + 1]
    THEN common_prefix_len(start_key_, end_key_, zero, n + 1)
    ELSE n

RECURSIVE find_middle_key(_, _, _)
\* mutation: the first character of end is returned also when end has no
\* further character
find_middle_key_short_end(start_key_, end_key_, alphabet) ==
    LET zero == alphabet[1]
        prefix_len == common_prefix_len(start_key_, end_key_, zero, 0)
        digit_a == IF start_key_ # <<>> THEN Index(alphabet, start_key_[1]) ELSE 0
        digit_b == IF end_key_ # None /\ end_key_ # <<>>
                   THEN Index(alphabet, end_key_[1]) ELSE Len(alphabet)
    IN  IF end_key_ # None /\ ~StrLess(start_key_, end_key_)
        THEN Raise("OrderKeyError")
        ELSE IF \/ (start_key_ # <<>> /\ start_key_[Len(start_key_)] = zero)
                \/ (end_key_ # None /\ end_key_ # <<>>
                    /\ end_key_[Len(end_key_)] = zero)
        THEN Raise("OrderKeyError")
        ELSE IF end_key_ # None /\ end_key_ # <<>> /\ prefix_len > 0
        THEN LET rest == find_middle_key(
                             SubSeq(start_key_, prefix_len + 1, Len(start_key_)),
                             SubSeq(end_key_, prefix_len + 1, Len(end_key_)),
                             alphabet)
             IN  IF ~IsOk(rest) THEN rest
                 ELSE Ok(SubSeq(end_key_, 1, prefix_len) \o rest.val)
        ELSE IF digit_b - digit_a > 1
        THEN Ok(<<alphabet[round_half_up(digit_a + digit_b) + 1]>>)
        ELSE IF end_key_ # None /\ end_key_ # <<>>
        THEN Ok(SubSeq(end_key_, 1, 1))
        ELSE LET rest == find_middle_key(SubSeq(start_key_, 2, Len(start_key_)),
                                         None, alphabet)
             IN  IF ~IsOk(rest) THEN rest
                 ELSE Ok(<<alphabet[digit_a + 1]>> \o rest.val)

find_middle_key(start_key_, end_key_, alphabet) ==
    LET zero == alphabet[1]
        prefix_len == common_prefix_len(start_key_, end_key_, zero, 0)
        digit_a == IF start_key_ # <<>> THEN Index(alphabet, start_key_[1]) ELSE 0
        digit_b == IF end_key_ # None /\ end_key_ # <<>>
                   THEN Index(alphabet, end_key_[1]) ELSE Len(alphabet)
    IN  IF end_key_ # None /\ ~StrLess(start_key_, end_key_)
        THEN Raise("OrderKeyError")
        ELSE IF \/ (start_key_ # <<>> /\ start_key_[Len(start_key_)] = zero)
                \/ (end_key_ # None /\ end_key_ # <<>>
                    /\ end_key_[Len(end_key_)] = zero)
        THEN Raise("OrderKeyError")
        ELSE IF end_key_ # None /\ end_key_ # <<>> /\ prefix_len > 0
        THEN LET rest == find_middle_key(
                             SubSeq(start_key_, prefix_len + 1, Len(start_key_)),
                             SubSeq(end_key_, prefix_len + 1, Len(end_key_)),
                             alphabet)
             IN  IF ~IsOk(rest) THEN rest
                 ELSE Ok(SubSeq(end_key_, 1, prefix_len) \o rest.val)
        ELSE IF digit_b - digit_a > 1
        THEN Ok(<<alphabet[round_half_up(digit_a + digit_b) + 1]>>)
        ELSE IF end_key_ # None /\ end_key_ # <<>> /\ Len(end_key_) > 1
        THEN Ok(SubSeq(end_key_, 1, 1))
        ELSE LET rest == find_middle_key(SubSeq(start_key_, 2, Len(start_key_)),
                                         None, alphabet)
             IN  IF ~IsOk(rest) THEN rest
                 ELSE Ok(<<alphabet[digit_a + 1]>> \o rest.val)

-----------------------------------------------------------------------------
(* Key generator.                                                          *)

handle_end_key_only_case(end_key_, alphabet) ==
    LET zero == alphabet[1]
        integer_part == get_integer_part(end_key_)
    IN  IF ~IsOk(integer_part) THEN integer_part
        ELSE LET fractional_part ==
                     SubSeq(end_key_, Len(integer_part.val) + 1, Len(end_key_))
             IN  IF integer_part.val = <<ord_A>> \o Repeat(zero, 26)
                 THEN LET middle == find_middle_key(<<>>, fractional_part, alphabet)
                      IN  IF ~IsOk(middle) THEN middle
                          ELSE Ok(integer_part.val \o middle.val)
                 ELSE IF StrLess(integer_part.val, end_key_)
                 THEN integer_part
                 ELSE LET decremented == decrement_integer(integer_part.val, alphabet)
                      IN  IF ~IsOk(decremented) THEN decremented
                          ELSE IF decremented.val = None
                          THEN Raise("OrderKeyError")
                          ELSE decremented

handle_start_key_only_case(start_key_, alphabet) ==
    LET integer_part == get_integer_part(start_key_)
    IN  IF ~IsOk(integer_part) THEN integer_part
        ELSE LET fractional_part ==
                     SubSeq(start_key_, Len(integer_part.val) + 1, Len(start_key_))
                 incremented == increment_integer(integer_part.val, alphabet)
             IN  IF ~IsOk(incremented) THEN incremented
                 ELSE IF incremented.val = None
                 THEN LET middle == find_middle_key(fractional_part, None, alphabet)
                      IN  IF ~IsOk(middle) THEN middle
                          ELSE Ok(integer_part.val \o middle.val)
                 ELSE incremented

\* mutation: the incremented integer part is returned without comparing it
\* with end
handle_both_keys_case_unbounded(start_key_, end_key_, alphabet) ==
    LET start_int_part == get_integer_part(start_key_)
        end_int_part == get_integer_part(end_key_)
    IN  IF ~IsOk(start_int_part) THEN start_int_part
        ELSE IF ~IsOk(end_int_part) THEN end_int_part
        ELSE LET start_frac_part ==
                     SubSeq(start_key_, Len(start_int_part.val) + 1, Len(start_key_))
                 end_frac_part ==
                     SubSeq(end_key_, Len(end_int_part.val) + 1, Len(end_key_))
                 incremented == increment_integer(start_int_part.val, alphabet)
             IN  IF start_int_part.val = end_int_part.val
                 THEN LET middle == find_middle_key(start_frac_part, end_frac_part,
                                                    alphabet)
                      IN  IF ~IsOk(middle) THEN middle
                          ELSE Ok(start_int_part.val \o middle.val)
                 ELSE IF ~IsOk(incremented) THEN incremented
                 ELSE IF incremented.val = None THEN Raise("OrderKeyError")
                 ELSE incremented

handle_both_keys_case(start_key_, end_key_, alphabet) ==
    LET start_int_part == get_integer_part(start_key_)
        end_int_part == get_integer_part(end_key_)
    IN  IF ~IsOk(start_int_part) THEN start_int_part
        ELSE IF ~IsOk(end_int_part) THEN end_int_part
        ELSE LET start_frac_part ==
                     SubSeq(start_key_, Len(start_int_part.val) + 1, Len(start_key_))
                 end_frac_part ==
                     SubSeq(end_key_, Len(end_int_part.val) + 1, Len(end_key_))
                 incremented == increment_integer(start_int_part.val, alphabet)
             IN  IF start_int_part.val = end_int_part.val
                 THEN LET middle == find_middle_key(start_frac_part, end_frac_part,
                                                    alphabet)
                      IN  IF ~IsOk(middle) THEN middle
                          ELSE Ok(start_int_part.val \o middle.val)
                 ELSE IF ~IsOk(incremented) THEN incremented
                 ELSE IF incremented.val = None THEN Raise("OrderKeyError")
                 ELSE IF StrLess(incremented.val, end_key_) THEN incremented
                 ELSE LET middle == find_middle_key(start_frac_part, None, alphabet)
                      IN  IF ~IsOk(middle) THEN middle
                          ELSE Ok(start_int_part.val \o middle.val)

generate_key_between(start_key_, end_key_, alphabet) ==
    LET zero == alphabet[1]
        start_checked == IF start_key_ # None
                         THEN validate_order_key(start_key_, alphabet)
                         ELSE Ok(None)
        end_checked == IF end_key_ # None
                       THEN validate_order_key(end_key_, alphabet)
                       ELSE Ok(None)
    IN  IF ~IsOk(start_checked) THEN start_checked
        ELSE IF ~IsOk(end_checked) THEN end_checked
        ELSE IF start_key_ # None /\ end_key_ # None
                /\ ~StrLess(start_key_, end_key_)
        THEN Raise("OrderKeyError")
        ELSE IF start_key_ = None
        THEN IF end_key_ = None THEN Ok(<<ord_a, zero>>)
             ELSE handle_end_key_only_case(end_key_, alphabet)
        ELSE IF end_key_ = None
        THEN handle_start_key_only_case(start_key_, alphabet)
        ELSE handle_both_keys_case(start_key_, end_key_, alphabet)

\* the for loop of handle_generate_n_keys_with_end_none: remaining further
\* keys after result, each generated from the last one
RECURSIVE end_none_loop(_, _, _)
end_none_loop(keys, remaining, alphabet) ==
    IF remaining = 0 THEN Ok(keys)
    ELSE LET current_key == generate_key_between(keys[Len(keys)], None, alphabet)
         IN  IF ~IsOk(current_key) THEN current_key
             ELSE end_none_loop(Append(keys, current_key.val), remaining - 1,
                                alphabet)

handle_generate_n_keys_with_end_none(start_key_, number_of_keys_, alphabet) ==
    LET current_key == generate_key_between(start_key_, None, alphabet)
    IN  IF ~IsOk(current_key) THEN current_key
        ELSE end_none_loop(<<current_key.val>>, number_of_keys_ - 1, alphabet)

RECURSIVE start_none_loop(_, _, _)
start_none_loop(keys, remaining, alphabet) ==
    IF remaining = 0 THEN Ok(keys)
    ELSE LET current_key == generate_key_between(None, keys[Len(keys)], alphabet)
         IN  IF ~IsOk(current_key) THEN current_key
             ELSE start_none_loop(Append(keys, current_key.val), remaining - 1,
                                  alphabet)

\* list(reversed(result))
Reversed(s) == [i \in 1..Len(s) |-> s[Len(s) + 1 - i]]

handle_generate_n_keys_with_start_none(end_key_, number_of_keys_, alphabet) ==
    LET current_key == generate_key_between(None, end_key_, alphabet)
    IN  IF ~IsOk(current_key) THEN current_key
        ELSE LET built == start_none_loop(<<current_key.val>>,
                                          number_of_keys_ - 1, alphabet)
             IN  IF ~IsOk(built) THEN built ELSE Ok(Reversed(built.val))

RECURSIVE generate_n_keys_between(_, _, _, _)
\* mutation: the right half is generated from start instead of from the
\* middle key
generate_n_keys_between_right_from_start(start_key_, end_key_, number_of_keys_, alphabet) ==
    IF number_of_keys_ = 0 THEN Ok(<<>>)
    ELSE IF number_of_keys_ = 1
    THEN LET only == generate_key_between(start_key_, end_key_, alphabet)
         IN  IF ~IsOk(only) THEN only ELSE Ok(<<only.val>>)
    ELSE IF end_key_ = None
    THEN handle_generate_n_keys_with_end_none(start_key_, number_of_keys_, alphabet)
    ELSE IF start_key_ = None
    THEN handle_generate_n_keys_with_start_none(end_key_, number_of_keys_, alphabet)
    ELSE LET mid_index == number_of_keys_ \div 2
             middle_key == generate_key_between(start_key_, end_key_, alphabet)
         IN  IF ~IsOk(middle_key) THEN middle_key
             ELSE LET left == generate_n_keys_between(
                                  start_key_, middle_key.val, mid_index, alphabet)
                      right == generate_n_keys_between(
                                   start_key_, end_key_,
                                   number_of_keys_ - mid_index - 1, alphabet)
                  IN  IF ~IsOk(left) THEN left
                      ELSE IF ~IsOk(right) THEN right
                      ELSE Ok(left.val \o <<middle_key.val>> \o right.val)

generate_n_keys_between(start_key_, end_key_, number_of_keys_, alphabet) ==
    IF number_of_keys_ = 0 THEN Ok(<<>>)
    ELSE IF number_of_keys_ = 1
    THEN LET only == generate_key_between(start_key_, end_key_, alphabet)
         IN  IF ~IsOk(only) THEN only ELSE Ok(<<only.val>>)
    ELSE IF end_key_ = None
    THEN handle_generate_n_keys_with_end_none(start_key_, number_of_keys_, alphabet)
    ELSE IF start_key_ = None
    THEN handle_generate_n_keys_with_start_none(end_key_, number_of_keys_, alphabet)
    ELSE LET mid_index == number_of_keys_ \div 2
             middle_key == generate_key_between(start_key_, end_key_, alphabet)
         IN  IF ~IsOk(middle_key) THEN middle_key
             ELSE LET left == generate_n_keys_between(
                                  start_key_, middle_key.val, mid_index, alphabet)
                      right == generate_n_keys_between(
                                   middle_key.val, end_key_,
                                   number_of_keys_ - mid_index - 1, alphabet)
                  IN  IF ~IsOk(left) THEN left
                      ELSE IF ~IsOk(right) THEN right
                      ELSE Ok(left.val \o <<middle_key.val>> \o right.val)

-----------------------------------------------------------------------------
(* Inputs.  Keys are a head followed by symbols of the alphabet; the       *)
(* symbols tried are the zero digit, the digits next to it and the maximum *)
(* digit and its neighbour, which are the ones the carries, borrows and    *)
(* midpoints turn on.                                                      *)

DIGITS_01 == <<48, 49>>                     \* '01'
DIGITS_012 == <<48, 49, 50>>                \* '012'
BASE_10_DIGITS == [i \in 1..10 |-> 47 + i]  \* '0123456789'
DIGITS_10 == <<49, 48>>                     \* '10'
DIGITS_zyx == <<122, 121, 120>>             \* 'zyx'

Ascending(alphabet) ==
    \A i \in 1..(Len(alphabet) - 1) : alphabet[i] < alphabet[i + 1]

Symbols(alphabet) == {alphabet[i] : i \in 1..Len(alphabet)}

SampleDigits(alphabet) == {alphabet[1], alphabet[2], alphabet[Len(alphabet)]}

MidpointDigits(alphabet) ==
    SampleDigits(alphabet)
    \cup {alphabet[(Len(alphabet) + 1) \div 2], alphabet[Len(alphabet) - 1]}

\* the length a head declares (heads are letters here)
LengthOf(h) == get_integer_length(h).val

\* integer parts head, fill ... fill, last of the length the head declares
IntegerInputs(alphabet, heads, fills) ==
    {<<h>> \o Repeat(f, LengthOf(h) - 2) \o <<l>> :
        h \in heads, f \in fills, l \in SampleDigits(alphabet)}

\* every integer part over the alphabet with one of the heads
AllIntegers(alphabet, heads) ==
    UNION {{<<h>> \o d : d \in [1..(LengthOf(h) - 1) -> Symbols(alphabet)]} :
              h \in heads}

\* the heads that declare a length of at most n
ShortHeads(n) ==
    {h \in (ord_A..ord_Z) \cup (ord_a..ord_z) : LengthOf(h) <= n}

\* fractional parts fill ... fill, last over the symbols ds, and the empty one
FracInputs(ds) ==
    {<<>>} \cup
    {Repeat(f, k) \o <<l>> : k \in 0..(MaxFracLen - 1), f \in ds, l \in ds}

\* the least integer parts (head 'A'), those around the change of case
\* ('Z', 'a') and the greatest ones (head 'z')
KeyIntegers(alphabet) ==
    IntegerInputs(alphabet, {ord_A, ord_Z, ord_a}, {alphabet[1]})
    \cup IntegerInputs(alphabet, {ord_z}, {alphabet[Len(alphabet)]})

\* well-formed or not: the empty string, a head that is no letter, keys
\* shorter than their head declares, fractional parts that end in zero
KeyInputs(alphabet) ==
    {i \o f : i \in KeyIntegers(alphabet),
              f \in FracInputs(SampleDigits(alphabet))}
    \cup {<<>>, <<48, alphabet[2]>>, <<ord_A, alphabet[2]>>,
          <<ord_z, alphabet[1]>>}

\* integer parts for the arithmetic: every one of the short heads, and the
\* patterned ones at both ends of the range
ArithmeticIntegers(alphabet) ==
    AllIntegers(alphabet,
                ShortHeads(IF Len(alphabet) <= 3 THEN MaxIntLen ELSE 2))
    \cup IntegerInputs(alphabet, {ord_A, ord_A + 1, ord_Z - 1, ord_a + 1,
                                  ord_z - 1, ord_z},
                       {alphabet[1], alphabet[Len(alphabet)]})

-----------------------------------------------------------------------------
(* The calls.  Each specification draws the arguments of one call in its   *)
(* initial state; its actions are the calls.                               *)

TypeOK ==
    /\ pc \in {"call", "generate_key_between", "generate_n_keys_between",
               "increment_integer", "decrement_integer", "find_middle_key"}
    /\ result.exc \in {"none", "OrderKeyError", "IndexError"}
    /\ number_of_keys \in 0..(MaxN + 1)

GenerateKeyBetween ==
    /\ pc = "call"
    /\ result' = generate_key_between(start_key, end_key, digits)
    /\ pc' = "generate_key_between"
    /\ UNCHANGED <<digits, start_key, end_key, number_of_keys>>

GenerateNKeysBetween ==
    /\ pc = "call"
    /\ \E n \in 0..MaxN :
          /\ number_of_keys' = n
          /\ result' = generate_n_keys_between(start_key, end_key, n, digits)
    /\ pc' = "generate_n_keys_between"
    /\ UNCHANGED <<digits, start_key, end_key>>

IncrementInteger ==
    /\ pc = "call"
    /\ result' = increment_integer(start_key, digits)
    /\ pc' = "increment_integer"
    /\ UNCHANGED <<digits, start_key, end_key, number_of_keys>>

DecrementInteger ==
    /\ pc = "call"
    /\ result' = decrement_integer(start_key, digits)
    /\ pc' = "decrement_integer"
    /\ UNCHANGED <<digits, start_key, end_key, number_of_keys>>

FindMiddleKey ==
    /\ pc = "call"
    /\ result' = find_middle_key(start_key, end_key, digits)
    /\ pc' = "find_middle_key"
    /\ UNCHANGED <<digits, start_key, end_key, number_of_keys>>

\* key generation under alphabets in ascending character order
Init ==
    /\ digits \in {BASE_62_DIGITS, DIGITS_01}
    /\ start_key \in KeyInputs(digits) \cup {None}
    /\ end_key \in KeyInputs(digits) \cup {None}
    /\ number_of_keys = 0
    /\ pc = "call"
    /\ result = Ok(None)

Next == GenerateKeyBetween \/ GenerateNKeysBetween

Spec == Init /\ [][Next]_vars

\* key generation under alphabets in any order
InitAlphabet ==
    /\ digits \in {DIGITS_01, DIGITS_012, BASE_10_DIGITS, DIGITS_10, DIGITS_zyx}
    /\ start_key \in KeyInputs(digits)
    /\ end_key \in KeyInputs(digits) \cup {None}
    /\ number_of_keys = 0
    /\ pc = "call"
    /\ result = Ok(None)

NextAlphabet == GenerateKeyBetween

SpecAlphabet == InitAlphabet /\ [][NextAlphabet]_vars

\* the integer arithmetic
InitInteger ==
    /\ digits \in {BASE_62_DIGITS, DIGITS_012}
    /\ start_key \in ArithmeticIntegers(digits)
    /\ end_key = None
    /\ number_of_keys = 0
    /\ pc = "call"
    /\ result = Ok(None)

NextInteger == IncrementInteger \/ DecrementInteger

SpecInteger == InitInteger /\ [][NextInteger]_vars

\* the midpoint finder on fractional parts
InitMidpoint ==
    /\ digits \in {BASE_62_DIGITS, BASE_10_DIGITS, DIGITS_01}
    /\ start_key \in FracInputs(MidpointDigits(digits))
    /\ end_key \in FracInputs(MidpointDigits(digits)) \cup {None}
    /\ number_of_keys = 0
    /\ pc = "call"
    /\ result = Ok(None)

NextMidpoint == FindMiddleKey

SpecMidpoint == InitMidpoint /\ [][NextMidpoint]_vars

-----------------------------------------------------------------------------
(* Vocabulary of the properties.                                           *)

Present(k) == k # None

\* k passes validate_order_key
Valid(k) == IsOk(validate_order_key(k, digits))

\* 'A' followed by 26 zero digits
Sentinel == <<ord_A>> \o Repeat(digits[1], 26)

\* 'z' followed by 26 maximum digits
Greatest == <<ord_z>> \o Repeat(digits[Len(digits)], 26)

IsLetter(c) == (ord_A <= c /\ c <= ord_Z) \/ (ord_a <= c /\ c <= ord_z)

\* the arguments are absent or valid, and in order when both are present
ValidArguments ==
    /\ Present(start_key) => Valid(start_key)
    /\ Present(end_key) => Valid(end_key)
    /\ Present(start_key) /\ Present(end_key) => StrLess(start_key, end_key)

\* k lies strictly between the arguments that are present
Between(k) ==
    /\ Present(start_key) => StrLess(start_key, k)
    /\ Present(end_key) => StrLess(k, end_key)

\* C1: under an alphabet in ascending character order, generate_key_between
\* on absent or valid arguments (start < end when both are present) returns a
\* key above start, when start is present, and below end, when end is present.
C1_KeyBetween ==
    (pc = "generate_key_between" /\ Ascending(digits) /\ ValidArguments)
        => (IsOk(result) /\ Between(result.val))

\* a key returned between 'a0' and 'a1', adjacent integer parts, under the
\* default alphabet
C1_Witness ==
    /\ pc = "generate_key_between"
    /\ digits = BASE_62_DIGITS
    /\ start_key = <<ord_a, 48>> /\ end_key = <<ord_a, 49>>
    /\ ValidArguments
    /\ IsOk(result) /\ Between(result.val)

\* C2: every key generate_key_between returns, and every key in the list
\* generate_n_keys_between returns, on absent or valid arguments passes
\* validate_order_key.
C2_ResultsValid ==
    /\ (pc = "generate_key_between" /\ ValidArguments /\ IsOk(result))
           => Valid(result.val)
    /\ (pc = "generate_n_keys_between" /\ ValidArguments /\ IsOk(result))
           => \A i \in 1..Len(result.val) : Valid(result.val[i])

\* k1 < k2 < ... < kn
Increasing(keys) ==
    \A i \in 1..(Len(keys) - 1) : StrLess(keys[i], keys[i + 1])

\* C3: with both arguments present, valid and start < end,
\* generate_n_keys_between returns exactly n keys, increasing, all strictly
\* between start and end, and generate_key_between succeeds on each adjacent
\* pair of them.
C3_NKeysBetween ==
    (/\ pc = "generate_n_keys_between"
     /\ Present(start_key) /\ Present(end_key) /\ ValidArguments)
        => /\ IsOk(result)
           /\ Len(result.val) = number_of_keys
           /\ Increasing(<<start_key>> \o result.val \o <<end_key>>)
           /\ \A i \in 1..(Len(result.val) - 1) :
                  IsOk(generate_key_between(result.val[i], result.val[i + 1],
                                            digits))

\* the largest request between two keys of one integer part
C3_Witness ==
    /\ pc = "generate_n_keys_between"
    /\ number_of_keys = MaxN
    /\ Present(start_key) /\ Present(end_key) /\ ValidArguments
    /\ get_integer_part(start_key) = get_integer_part(end_key)
    /\ IsOk(result) /\ Len(result.val) = MaxN
    /\ Increasing(<<start_key>> \o result.val \o <<end_key>>)

\* the chain k1 = key_between(s, None), k(i+1) = key_between(ki, None)
RECURSIVE UpwardChain(_, _)
UpwardChain(s, n) ==
    IF n = 0 THEN <<>>
    ELSE LET k == generate_key_between(s, None, digits).val
         IN  <<k>> \o UpwardChain(k, n - 1)

\* the chain key_between(None, e), key_between(None, that), ...
RECURSIVE DownwardChain(_, _)
DownwardChain(e, n) ==
    IF n = 0 THEN <<>>
    ELSE LET k == generate_key_between(None, e, digits).val
         IN  <<k>> \o DownwardChain(k, n - 1)

\* C4: with one argument absent and the other valid, generate_n_keys_between
\* succeeds for every n >= 1; it returns the upward chain from start, above
\* start and increasing, or the reversed downward chain from end, increasing
\* and below end.
C4_ChainsSucceed ==
    (/\ pc = "generate_n_keys_between"
     /\ number_of_keys >= 1
     /\ Present(start_key) # Present(end_key) /\ ValidArguments)
        => /\ IsOk(result)
           /\ Present(start_key) =>
                  /\ result.val = UpwardChain(start_key, number_of_keys)
                  /\ Increasing(<<start_key>> \o result.val)
           /\ Present(end_key) =>
                  /\ result.val = Reversed(DownwardChain(end_key, number_of_keys))
                  /\ Increasing(result.val \o <<end_key>>)

\* the integer part is well formed: its length is the one its head declares
WellFormed(x) == x # <<>> /\ IsLetter(x[1]) /\ Len(x) = LengthOf(x[1])

\* C5: on a well-formed integer part x, increment_integer returns the
\* overflow marker exactly when x is the greatest integer part and otherwise
\* a value that decrement_integer takes back to x; decrement_integer returns
\* the marker exactly when x is the least integer part and otherwise a value
\* that increment_integer takes back to x.
C5_RoundTrip ==
    /\ (pc = "increment_integer" /\ WellFormed(start_key))
           => /\ IsOk(result)
              /\ (result.val = None) <=> (start_key = Greatest)
              /\ result.val # None
                     => decrement_integer(result.val, digits) = Ok(start_key)
    /\ (pc = "decrement_integer" /\ WellFormed(start_key))
           => /\ IsOk(result)
              /\ (result.val = None) <=> (start_key = Sentinel)
              /\ result.val # None
                     => increment_integer(result.val, digits) = Ok(start_key)

\* the increment that changes case, 'Z' then the maximum digit to 'a' then
\* the zero digit
C5_Witness ==
    /\ pc = "increment_integer"
    /\ start_key = <<ord_Z, digits[Len(digits)]>>
    /\ result = Ok(<<ord_a, digits[1]>>)
    /\ decrement_integer(result.val, digits) = Ok(start_key)

\* one of the malformations of a key: the reserved sentinel, a head that is
\* no letter, a key shorter than its head declares, a fractional part that
\* ends in the zero digit
Malformed(k) ==
    \/ k = Sentinel
    \/ k # <<>> /\ ~IsLetter(k[1])
    \/ k # <<>> /\ IsLetter(k[1]) /\ Len(k) < LengthOf(k[1])
    \/ k # <<>> /\ IsLetter(k[1]) /\ Len(k) > LengthOf(k[1])
           /\ k[Len(k)] = digits[1]

\* C6: generate_key_between, and generate_n_keys_between with n >= 1, raise
\* OrderKeyError whenever a present argument is malformed and whenever both
\* are present with start >= end.
C6_Rejects ==
    (/\ \/ pc = "generate_key_between"
        \/ pc = "generate_n_keys_between" /\ number_of_keys >= 1
     /\ \/ Present(start_key) /\ Malformed(start_key)
        \/ Present(end_key) /\ Malformed(end_key)
        \/ Present(start_key) /\ Present(end_key)
               /\ ~StrLess(start_key, end_key))
        => result.exc = "OrderKeyError"

\* the betweenness of C7 in a state where generate_key_between has returned
BetweenWhenStartPresent ==
    (/\ pc = "generate_key_between"
     /\ Present(start_key) /\ ValidArguments)
        => (IsOk(result) /\ Between(result.val))

\* C7 as stated: for every duplicate-free alphabet of at least 2 symbols,
\* in character order or not, generate_key_between(a, b) on valid a < b
\* returns k with a < k < b and generate_key_between(a, None) returns k > a.
C7_AnyAlphabet == BetweenWhenStartPresent

\* C7 amended: the same for every alphabet whose symbols are in ascending
\* character order.
C7_AscendingAlphabet == Ascending(digits) => BetweenWhenStartPresent

\* a key returned between two keys of one integer part under '012'
C7_Witness ==
    /\ pc = "generate_key_between"
    /\ digits = DIGITS_012
    /\ Present(start_key) /\ Present(end_key) /\ ValidArguments
    /\ get_integer_part(start_key) = get_integer_part(end_key)
    /\ IsOk(result) /\ Between(result.val)

\* the longest common prefix of start (right-padded with zero) and end
StrippedLen(s, e) ==
    CHOOSE n \in 0..Len(e) :
        /\ \A j \in 1..n : (IF j <= Len(s) THEN s[j] ELSE digits[1]) = e[j]
        /\ n < Len(e)
               => (IF n < Len(s) THEN s[n + 1] ELSE digits[1]) # e[n + 1]

\* the arguments find_middle_key accepts: start < end when end is present,
\* no operand ends in the zero digit
MidpointArguments ==
    /\ start_key = <<>> \/ start_key[Len(start_key)] # digits[1]
    /\ Present(end_key) =>
           /\ StrLess(start_key, end_key)
           /\ end_key[Len(end_key)] # digits[1]

\* C8: when, past the common prefix, the first digit values a of start (0
\* when nothing is left) and b of end (the alphabet size when end is absent)
\* have b - a > 1, find_middle_key returns the prefix followed by the single
\* digit at index (a + b) / 2 rounded to nearest, ties up; and under the
\* default alphabet generate_key_between('a0', 'a1') = 'a0V' and
\* generate_key_between('a0', None) = 'a1'.
C8_Midpoint ==
    /\ (pc = "find_middle_key" /\ MidpointArguments)
           => LET p == IF Present(end_key) THEN StrippedLen(start_key, end_key)
                       ELSE 0
                  a == IF p < Len(start_key)
                       THEN Index(digits, start_key[p + 1]) ELSE 0
                  b == IF Present(end_key)
                       THEN Index(digits, end_key[p + 1]) ELSE Len(digits)
                  m == IF (a + b) % 2 = 0 THEN (a + b) \div 2
                       ELSE (a + b + 1) \div 2
              IN  b - a > 1
                      => result = Ok(SubSeq(start_key \o Repeat(digits[1], p),
                                            1, p) \o <<digits[m + 1]>>)
    /\ generate_key_between(<<97, 48>>, <<97, 49>>, BASE_62_DIGITS)
           = Ok(<<97, 48, 86>>)
    /\ generate_key_between(<<97, 48>>, None, BASE_62_DIGITS) = Ok(<<97, 49>>)

\* a tie: past the common prefix '1', digit values 0 and 61 give 30.5,
\* rounded up to 31, 'V'
C8_Witness ==
    /\ pc = "find_middle_key"
    /\ digits = BASE_62_DIGITS
    /\ start_key = <<49>> /\ end_key = <<49, 122>>
    /\ result = Ok(<<49, 86>>)

\* C9: on a well-formed integer part x other than the greatest,
\* increment_integer returns a well-formed integer part above x with no
\* well-formed integer part in between; decrement_integer mirrors it below
\* every x other than the least.
C9_Successor ==
    /\ (pc = "increment_integer" /\ WellFormed(start_key)
        /\ start_key # Greatest)
           => /\ IsOk(result) /\ result.val # None
              /\ WellFormed(result.val)
              /\ StrLess(start_key, result.val)
              /\ \A z \in ArithmeticIntegers(digits) :
                     ~(StrLess(start_key, z) /\ StrLess(z, result.val))
    /\ (pc = "decrement_integer" /\ WellFormed(start_key)
        /\ start_key # Sentinel)
           => /\ IsOk(result) /\ result.val # None
              /\ WellFormed(result.val)
              /\ StrLess(result.val, start_key)
              /\ \A z \in ArithmeticIntegers(digits) :
                     ~(StrLess(result.val, z) /\ StrLess(z, start_key))

\* an increment that advances the head and appends a digit: 'b' then
\* maximum digits to 'c' then zero digits
C9_Witness ==
    /\ pc = "increment_integer"
    /\ start_key = <<ord_a + 1>> \o Repeat(digits[Len(digits)], 2)
    /\ result = Ok(<<ord_a + 2>> \o Repeat(digits[1], 3))

\* C10: under the default alphabet generate_key_between on absent or valid
\* arguments (start < end when both are present) returns and never raises.
C10_Total ==
    (pc = "generate_key_between" /\ digits = BASE_62_DIGITS /\ ValidArguments)
        => (result.exc = "none" /\ result.val # None)

\* the end-only call that has to decrement: below 'a0' comes 'Zz'
C10_Witness ==
    /\ pc = "generate_key_between"
    /\ digits = BASE_62_DIGITS
    /\ start_key = None /\ end_key = <<ord_a, 48>>
    /\ result = Ok(<<ord_Z, 122>>)

=============================================================================
